---------------------------- MODULE Spec2Model ----------------------------
(***************************************************************************)
(* A model of bcpandas/main.py: the credential object SqlCreds and the two *)
(* pipelines to_sql (write path) and read_sql (read path).                 *)
(*                                                                         *)
(* Python strings are sequences of one-character strings, so that          *)
(* formatting (repr, f-strings) and substring tests are computed, not      *)
(* assumed.  Python's None is the one-element sequence <<"None">>, which   *)
(* is no string over the alphabet.                                         *)
(***************************************************************************)
EXTENDS Naturals, Sequences, FiniteSets

\* ------------------------------------------------------------------ bounds
\* Longest string given to the SqlCreds constructor.
MaxLen == 2
\* Largest number of columns of the dataframe given to to_sql.
MaxCols == 2

\* ----------------------------------------------------------------- strings
Alphabet == {"a", "b"}

None == <<"None">>

StringsUpTo(n) == UNION {[1..k -> Alphabet] : k \in 0..n}

Strings == StringsUpTo(MaxLen)

\* An optional str argument: a string or None.
OptStrings == Strings \cup {None}

\* Python truthiness of an optional str: None and "" are falsy.
Truthy(v) == v # None /\ v # <<>>

\* Python's `sub in s` for strings.
Contains(s, sub) ==
    \E i \in 0..Len(s) :
        /\ i + Len(sub) <= Len(s)
        /\ \A j \in 1..Len(sub) : s[i + j] = sub[j]

RECURSIVE Join(_, _)
\* Python's sep.join(parts).
Join(sep, parts) ==
    IF parts = <<>> THEN <<>>
    ELSE IF Len(parts) = 1 THEN parts[1]
    ELSE parts[1] \o sep \o Join(sep, Tail(parts))

\* The fixed texts of SqlCreds.__init__ and SqlCreds.__repr__.
S_server == <<"s","e","r","v","e","r">>
S_database == <<"d","a","t","a","b","a","s","e">>
S_username == <<"u","s","e","r","n","a","m","e">>
S_password == <<"p","a","s","s","w","o","r","d">>
S_with_krb_auth == <<"w","i","t","h","_","k","r","b","_","a","u","t","h">>
S_True == <<"T","r","u","e">>
S_False == <<"F","a","l","s","e">>
S_SqlCreds == <<"S","q","l","C","r","e","d","s">>
S_REDACTED == <<"[","R","E","D","A","C","T","E","D","]">>

\* --------------------------------------------------------------- SqlCreds
\* One item of an object's __dict__ (insertion ordered): attribute name k,
\* value v and the value's type t ("str" or "bool"; a bool's v is its repr).
Attr(k, v, t) == [k |-> k, v |-> v, t |-> t]

HasAttr(obj, k) == \E i \in 1..Len(obj) : obj[i].k = k

GetAttr(obj, k) == obj[CHOOSE i \in 1..Len(obj) : obj[i].k = k].v

\* f"{v!r}": a str in quotes (the alphabet has no quote or backslash),
\* a bool as True / False.
PyRepr(e) == IF e.t = "str" THEN <<"'">> \o e.v \o <<"'">> ELSE e.v

\* SqlCreds.__init__ with the or of a mistaken condition.
SqlCreds_init_or(server, database, username, password) ==
    IF ~Truthy(server) \/ ~Truthy(database)
    THEN [raised |-> "ValueError", self |-> <<>>]
    ELSE [raised |-> "None",
          self |->
            <<Attr(S_server, server, "str"), Attr(S_database, database, "str")>>
            \o (IF Truthy(username) \/ Truthy(password)
                THEN <<Attr(S_username, username, "str"),
                       Attr(S_password, password, "str"),
                       Attr(S_with_krb_auth, S_False, "bool")>>
                ELSE <<Attr(S_with_krb_auth, S_True, "bool")>>)]

\* SqlCreds.__init__: what it raises and the __dict__ it leaves.
SqlCreds_init(server, database, username, password) ==
    IF ~Truthy(server) \/ ~Truthy(database)
    THEN [raised |-> "ValueError", self |-> <<>>]
    ELSE [raised |-> "None",
          self |->
            <<Attr(S_server, server, "str"), Attr(S_database, database, "str")>>
            \o (IF Truthy(username) /\ Truthy(password)
                THEN <<Attr(S_username, username, "str"),
                       Attr(S_password, password, "str"),
                       Attr(S_with_krb_auth, S_False, "bool")>>
                ELSE <<Attr(S_with_krb_auth, S_True, "bool")>>)]

\* The items of __dict__ that __repr__ renders: all but the named key.
ItemsExcept(obj, k) == SelectSeq(obj, LAMBDA e : e.k # k)

KwItems(items) == [i \in 1..Len(items) |-> items[i].k \o <<"=">> \o PyRepr(items[i])]

\* SqlCreds.__repr__ without the filter on the password item.
SqlCreds_repr_leaky(self) ==
    LET kwargs == Join(<<",", " ">>, KwItems(self))
        tail == IF HasAttr(self, S_password)
                THEN <<",", " ">> \o S_password \o <<"=">> \o S_REDACTED
                ELSE <<>>
    IN S_SqlCreds \o <<"(">> \o kwargs \o tail \o <<")">>

\* SqlCreds.__repr__ (and __str__, which is the same function).
SqlCreds_repr(self) ==
    LET kwargs == Join(<<",", " ">>, KwItems(ItemsExcept(self, S_password)))
        tail == IF HasAttr(self, S_password)
                THEN <<",", " ">> \o S_password \o <<"=">> \o S_REDACTED
                ELSE <<>>
    IN S_SqlCreds \o <<"(">> \o kwargs \o tail \o <<")">>


\* ------------------------------------------------------------------ state
VARIABLES
    pc,      \* the position of the running call
    args,    \* the arguments of the running call
    creds,   \* the __dict__ of the SqlCreds object
    logged,  \* the text of {self} logged by the running SqlCreds.__init__
    shown,   \* the last value returned by str(creds)
    fs,      \* the scratch files that exist
    made,    \* the scratch files the running call has created
    flat,    \* the columns of the flat file written by df.to_csv
    events,  \* the external operations carried out, in order
    exc      \* the exception pending or raised ("None": none)

vars == <<pc, args, creds, logged, shown, fs, made, flat, events, exc>>

\* ------------------------------------------------- SqlCreds: specification
CredArgs ==
    [server : OptStrings, database : OptStrings,
     username : OptStrings, password : OptStrings]

InitCreds ==
    /\ pc = "SqlCreds.__init__"
    /\ args \in CredArgs
    /\ creds = <<>>
    /\ logged = <<>>
    /\ shown = <<>>
    /\ fs = {}
    /\ made = {}
    /\ flat = <<>>
    /\ events = <<>>
    /\ exc = "None"

\* creds = SqlCreds(server, database, username, password)
SqlCreds__init__ ==
    /\ pc = "SqlCreds.__init__"
    /\ LET r == SqlCreds_init(args.server, args.database, args.username, args.password)
       IN IF r.raised # "None"
          THEN /\ exc' = r.raised
               /\ pc' = "raised"
               /\ UNCHANGED <<creds, logged>>
          ELSE /\ creds' = r.self
               /\ logged' = SqlCreds_repr(r.self)
               /\ pc' = "constructed"
               /\ exc' = exc
    /\ UNCHANGED <<args, shown, fs, made, flat, events>>

\* str(creds) or repr(creds) on a constructed credential
SqlCreds__str__ ==
    /\ pc = "constructed"
    /\ shown' = SqlCreds_repr(creds)
    /\ pc' = "shown"
    /\ UNCHANGED <<args, creds, logged, fs, made, flat, events, exc>>

NextCreds == SqlCreds__init__ \/ SqlCreds__str__

SpecCreds == InitCreds /\ [][NextCreds]_vars

\* with_krb_auth of the constructed credential, as a boolean.
WithKrbAuth == GetAttr(creds, S_with_krb_auth) = S_True

Constructed == pc \in {"constructed", "shown"}

\* C6 as stated: construction fails iff server or database is empty or
\* absent, and the mode is password (with_krb_auth false) iff a username and
\* a password were both supplied (passed, not None).
C6_AsStated ==
    /\ pc = "raised" => (~Truthy(args.server) \/ ~Truthy(args.database))
    /\ (~Truthy(args.server) \/ ~Truthy(args.database)) => ~Constructed
    /\ Constructed =>
         (~WithKrbAuth <=> (args.username # None /\ args.password # None))

\* C6 amended: construction fails with ValueError iff server or database is
\* empty or absent; a constructed credential is in password mode
\* (with_krb_auth false, username and password stored) iff username and
\* password are both non-empty, and in integrated mode (with_krb_auth true,
\* neither stored) otherwise.
C6_AuthMode ==
    /\ pc = "raised" =>
         /\ exc = "ValueError"
         /\ ~Truthy(args.server) \/ ~Truthy(args.database)
    /\ (~Truthy(args.server) \/ ~Truthy(args.database)) => ~Constructed
    /\ Constructed =>
         /\ ~WithKrbAuth <=> (Truthy(args.username) /\ Truthy(args.password))
         /\ ~WithKrbAuth <=> HasAttr(creds, S_password)
         /\ ~WithKrbAuth <=> HasAttr(creds, S_username)
         /\ GetAttr(creds, S_server) = args.server
         /\ GetAttr(creds, S_database) = args.database

\* A credential constructed with an empty username and a password: it is in
\* integrated mode.
C6_Witness ==
    /\ Constructed
    /\ args.username = <<>>
    /\ Truthy(args.password)
    /\ WithKrbAuth

\* The string form the claim describes for a password-mode credential.
RedactedForm ==
    S_SqlCreds \o <<"(">>
    \o S_server \o <<"=", "'">> \o args.server \o <<"'", ",", " ">>
    \o S_database \o <<"=", "'">> \o args.database \o <<"'", ",", " ">>
    \o S_username \o <<"=", "'">> \o args.username \o <<"'", ",", " ">>
    \o S_with_krb_auth \o <<"=">> \o S_False \o <<",", " ">>
    \o S_password \o <<"=">> \o S_REDACTED \o <<")">>

\* C7 as stated: the string form of a credential constructed with a
\* (non-empty) username and password never contains the password value as a
\* substring.
C7_AsStated ==
    (Truthy(args.username) /\ Truthy(args.password)) =>
        /\ Constructed => ~Contains(logged, args.password)
        /\ pc = "shown" => ~Contains(shown, args.password)

\* C7 amended: for a credential constructed with a non-empty username and
\* password, the string form (the logged one and str/repr) renders server,
\* database, username and with_krb_auth literally and the password as the
\* fixed marker [REDACTED]; it is built without the password value, so it is
\* the same whatever the password is.
C7_Redacted ==
    (Truthy(args.username) /\ Truthy(args.password)) =>
        /\ Constructed => logged = RedactedForm
        /\ pc = "shown" => shown = RedactedForm

\* str() of a password-mode credential whose password differs from every
\* other field has been taken.
C7_Witness ==
    /\ pc = "shown"
    /\ Truthy(args.username)
    /\ Len(args.password) = MaxLen
    /\ args.password \notin {args.server, args.database, args.username}
    /\ Contains(shown, S_REDACTED)


\* ------------------------------------------------------------------ to_sql
\* constants.SQL_TYPES and constants.IF_EXISTS_OPTIONS, as to_sql documents them.
SQL_TYPES == {"table", "view"}

IF_EXISTS_OPTIONS == {"fail", "replace", "append"}

\* The dataframe: its index (column 0) and its n data columns 1..n.
Df(n) == [index |-> 0, columns |-> [i \in 1..n |-> i]]

\* DataFrame.to_csv(header=False, index=...): the columns of each written row.
to_csv(df, index) == IF index THEN <<df.index>> \o df.columns ELSE df.columns

\* utils.get_temp_file(): a new, empty scratch file at the given path.
get_temp_file(files, path) == files \cup {path}

\* utils.build_format_file(df=df): the error it raises, if any.
build_format_file(df) == IF Len(df.columns) = 0 THEN "SchemaError" ELSE "None"

\* One external operation carried out: its name and the error it raised.
Ev(op, err) == [op |-> op, err |-> err]

\* The outcome of an operation that fails with err or succeeds.
Outcome(ok, err) == IF ok THEN "None" ELSE err

\* The arguments of a to_sql call: ncols is the number of columns of df,
\* dest_exists whether the destination is in the database (to_sql never
\* asks), username and password what the credential was constructed with.
ToSqlArgs ==
    [sql_type : {"table", "view", "function"},
     if_exists : {"fail", "replace", "append", "merge"},
     index : BOOLEAN,
     debug : BOOLEAN,
     ncols : 0..MaxCols,
     dest_exists : BOOLEAN,
     username : {None, <<"a">>},
     password : {None, <<"b">>}]

InitToSql ==
    /\ pc = "to_sql:validate"
    /\ args \in ToSqlArgs
    /\ creds = SqlCreds_init(<<"a">>, <<"b">>, args.username, args.password).self
    /\ logged = <<>>
    /\ shown = <<>>
    /\ fs = {}
    /\ made = {}
    /\ flat = <<>>
    /\ events = <<>>
    /\ exc = "None"

\* lines 117-119 with the second assert left out
to_sql_validate_one_assert ==
    /\ pc = "to_sql:validate"
    /\ IF args.sql_type \notin SQL_TYPES
       THEN pc' = "raised" /\ exc' = "AssertionError"
       ELSE pc' = "to_sql:csv" /\ exc' = exc
    /\ UNCHANGED <<args, creds, logged, shown, fs, made, flat, events>>

\* lines 117-119: the two asserts
to_sql_validate ==
    /\ pc = "to_sql:validate"
    /\ IF args.sql_type \notin SQL_TYPES \/ args.if_exists \notin IF_EXISTS_OPTIONS
       THEN pc' = "raised" /\ exc' = "AssertionError"
       ELSE pc' = "to_sql:csv" /\ exc' = exc
    /\ UNCHANGED <<args, creds, logged, shown, fs, made, flat, events>>

\* lines 121-134: the scratch flat file and df.to_csv(..., index=False, ...),
\* outside the try statement: an error goes straight to the caller
to_sql_save_csv ==
    /\ pc = "to_sql:csv"
    /\ fs' = get_temp_file(fs, "csv")
    /\ made' = made \cup {"csv"}
    /\ \E ok \in BOOLEAN :
         /\ events' = Append(events, Ev("to_csv", Outcome(ok, "OSError")))
         /\ IF ok
            THEN /\ flat' = to_csv(Df(args.ncols), FALSE)
                 /\ pc' = "to_sql:fmt"
                 /\ exc' = exc
            ELSE /\ flat' = flat
                 /\ pc' = "raised"
                 /\ exc' = "OSError"
    /\ UNCHANGED <<args, creds, logged, shown>>

\* lines 136-141: the scratch format file, build_format_file and the write,
\* outside the try statement
to_sql_format_file ==
    /\ pc = "to_sql:fmt"
    /\ fs' = get_temp_file(fs, "fmt")
    /\ made' = made \cup {"fmt"}
    /\ LET built == build_format_file(Df(args.ncols))
       IN IF built # "None"
          THEN /\ events' = Append(events, Ev("build_format_file", built))
               /\ pc' = "raised"
               /\ exc' = built
          ELSE \E ok \in BOOLEAN :
               /\ events' = events \o <<Ev("build_format_file", "None"),
                                        Ev("write_format_file", Outcome(ok, "OSError"))>>
               /\ pc' = IF ok THEN "to_sql:policy" ELSE "raised"
               /\ exc' = Outcome(ok, "OSError")
    /\ UNCHANGED <<args, creds, logged, shown, flat>>

\* lines 143-157: the existence policy, inside the try statement
to_sql_policy ==
    /\ pc = "to_sql:policy"
    /\ \/ /\ args.if_exists = "fail"
          /\ events' = Append(events, Ev("raise", "NotImplementedError"))
          /\ exc' = "NotImplementedError"
          /\ pc' = "to_sql:finally"
       \/ /\ args.if_exists = "replace"
          /\ \E generated \in BOOLEAN, executed \in BOOLEAN :
               LET e1 == Ev("_get_sql_create_statement",
                            Outcome(generated, "UnsupportedTypeError"))
                   e2 == Ev("creds.username",
                            Outcome(HasAttr(creds, S_username), "AttributeError"))
                   e3 == Ev("sqlcmd", Outcome(executed, "SqlCmdError"))
                   done == IF e1.err # "None" THEN <<e1>>
                           ELSE IF e2.err # "None" THEN <<e1, e2>>
                           ELSE <<e1, e2, e3>>
                   err == done[Len(done)].err
               IN /\ events' = events \o done
                  /\ exc' = err
                  /\ pc' = IF err = "None" THEN "to_sql:bcp" ELSE "to_sql:finally"
       \/ /\ args.if_exists = "append"
          /\ pc' = "to_sql:bcp"
          /\ UNCHANGED <<events, exc>>
    /\ UNCHANGED <<args, creds, logged, shown, fs, made, flat>>

\* lines 159-169: bcp(direction=IN), inside the try statement
to_sql_bcp ==
    /\ pc = "to_sql:bcp"
    /\ \E ok \in BOOLEAN :
         /\ events' = Append(events, Ev("bcp in", Outcome(ok, "BulkCopyError")))
         /\ exc' = Outcome(ok, "BulkCopyError")
    /\ pc' = "to_sql:finally"
    /\ UNCHANGED <<args, creds, logged, shown, fs, made, flat>>

\* lines 170-178: the finally block. An os.remove that raises replaces the
\* pending exception and ends the block.
to_sql_finally ==
    /\ pc = "to_sql:finally"
    /\ IF args.debug
       THEN /\ pc' = IF exc = "None" THEN "returned" ELSE "raised"
            /\ UNCHANGED <<fs, events, exc>>
       ELSE \E ok1 \in BOOLEAN, ok2 \in BOOLEAN :
            LET r1 == Ev("os.remove csv", Outcome(ok1, "OSError"))
                r2 == Ev("os.remove fmt", Outcome(ok2, "OSError"))
            IN IF ~ok1
               THEN /\ events' = Append(events, r1)
                    /\ fs' = fs
                    /\ exc' = "OSError"
                    /\ pc' = "raised"
               ELSE /\ events' = events \o <<r1, r2>>
                    /\ fs' = IF ok2 THEN fs \ {"csv", "fmt"} ELSE fs \ {"csv"}
                    /\ exc' = IF ok2 THEN exc ELSE "OSError"
                    /\ pc' = IF exc' = "None" THEN "returned" ELSE "raised"
    /\ UNCHANGED <<args, creds, logged, shown, made, flat>>

NextToSql ==
    \/ to_sql_validate
    \/ to_sql_save_csv
    \/ to_sql_format_file
    \/ to_sql_policy
    \/ to_sql_bcp
    \/ to_sql_finally

SpecToSql == InitToSql /\ [][NextToSql]_vars

\* ------------------------------------------------------- to_sql: properties
\* The call is over: it returned or an exception reached the caller.
Done == pc \in {"returned", "raised"}

\* The operation was carried out and raised nothing.
Succeeded(op) == \E i \in 1..Len(events) : events[i] = Ev(op, "None")

Count(op) == Cardinality({i \in 1..Len(events) : events[i].op = op})

Removals == {"os.remove csv", "os.remove fmt", "os.remove flat"}

\* The errors raised by the steps of the call (the deletions apart).
StepErrors ==
    {events[i].err : i \in {j \in 1..Len(events) :
                              events[j].op \notin Removals /\ events[j].err # "None"}}

\* The scratch files whose deletion was tried and failed.
RemoveFailed ==
    {f \in {"csv", "fmt", "flat"} :
        \E i \in 1..Len(events) :
            events[i].op \in Removals /\ events[i].err # "None"
            /\ events[i].op = IF f = "csv" THEN "os.remove csv"
                              ELSE IF f = "fmt" THEN "os.remove fmt"
                              ELSE "os.remove flat"}

\* Both scratch files were written: the call got to the try statement.
PolicyReached == Succeeded("write_format_file")

\* C1 as stated: when a to_sql call with debug=False is over, whichever step
\* failed or none, no scratch file the call created exists any more.
C1_AsStated == (Done /\ ~args.debug) => (made \cap fs = {})

C3_AsStated ==
    (Done /\ args.if_exists = "fail" /\ PolicyReached) =>
        /\ pc = "raised"
        /\ exc = "NotImplementedError"
        /\ Count("sqlcmd") = 0
        /\ Count("bcp in") = 0

\* C5 as stated, for the calls that got to the existence policy and generated
\* their CREATE statement: with if_exists="replace", and a credential of
\* either mode, the statement is executed exactly once, before bcp, and bcp
\* is invoked only if it succeeded; with if_exists="append" no statement is
\* executed.
C5_AsStated ==
    (Done /\ PolicyReached) =>
        /\ (args.if_exists = "replace" /\ Succeeded("_get_sql_create_statement")) =>
             /\ Count("sqlcmd") = 1
             /\ \A i \in 1..Len(events) :
                  events[i].op = "bcp in" =>
                    \E j \in 1..(i - 1) : events[j] = Ev("sqlcmd", "None")
        /\ args.if_exists = "append" => Count("sqlcmd") = 0

\* C8 as stated: the flat file written by to_sql has the index as a column
\* exactly when the index argument is set.
C8_AsStated ==
    Succeeded("to_csv") =>
        ((\E i \in 1..Len(flat) : flat[i] = Df(args.ncols).index) <=> args.index)

\* C9 as stated: when a step of to_sql has failed and a deletion in the
\* cleanup fails too, the caller receives the step's error, and every scratch
\* file whose own deletion did not fail is deleted.
C9_AsStated ==
    (pc = "raised" /\ StepErrors # {} /\ RemoveFailed # {}) =>
        /\ exc \in StepErrors
        /\ made \cap fs \subseteq RemoveFailed

\* ---------------------------------------------------------------- read_sql
\* The target names: non-empty strings of letters and statement separators.
TableNames == UNION {[1..k -> {"t", ";"}] : k \in 1..MaxLen}

\* The ODBC driver versions read_sql accepts.
DRIVER_VERSIONS == {13, 17}

ReadSqlArgs ==
    [table_name : TableNames,
     sql_type : {"table", "view", "function"},
     mssql_odbc_driver_version : {11, 13, 17},
     username : {None, <<"a">>},
     password : {None, <<"b">>}]

InitReadSql ==
    /\ pc = "read_sql:validate"
    /\ args \in ReadSqlArgs
    /\ creds = SqlCreds_init(<<"a">>, <<"b">>, args.username, args.password).self
    /\ logged = <<>>
    /\ shown = <<>>
    /\ fs = {}
    /\ made = {}
    /\ flat = <<>>
    /\ events = <<>>
    /\ exc = "None"

\* lines 189-191: the two asserts
read_sql_validate ==
    /\ pc = "read_sql:validate"
    /\ IF \/ args.sql_type \notin SQL_TYPES
          \/ args.mssql_odbc_driver_version \notin DRIVER_VERSIONS
       THEN pc' = "raised" /\ exc' = "AssertionError"
       ELSE pc' = "read_sql:name" /\ exc' = exc
    /\ UNCHANGED <<args, creds, logged, shown, fs, made, flat, events>>

\* lines 193-197 with the test of the name left out
read_sql_check_name_skipped ==
    /\ pc = "read_sql:name"
    /\ pc' = "read_sql:connect"
    /\ UNCHANGED <<args, creds, logged, shown, fs, made, flat, events, exc>>

\* lines 193-197: a name with ';' raises ValueError
read_sql_check_name ==
    /\ pc = "read_sql:name"
    /\ IF Contains(args.table_name, <<";">>)
       THEN pc' = "raised" /\ exc' = "ValueError"
       ELSE pc' = "read_sql:connect" /\ exc' = exc
    /\ UNCHANGED <<args, creds, logged, shown, fs, made, flat, events>>

\* lines 199-203: the connection string reads creds.username and
\* creds.password, then pyodbc.connect
read_sql_connect ==
    /\ pc = "read_sql:connect"
    /\ \E ok \in BOOLEAN :
         LET e1 == Ev("creds.username",
                      Outcome(HasAttr(creds, S_username), "AttributeError"))
             e2 == Ev("pyodbc.connect", Outcome(ok, "pyodbc.Error"))
             done == IF e1.err # "None" THEN <<e1>> ELSE <<e1, e2>>
             err == done[Len(done)].err
         IN /\ events' = events \o done
            /\ exc' = err
            /\ pc' = IF err = "None" THEN "read_sql:columns" ELSE "raised"
    /\ UNCHANGED <<args, creds, logged, shown, fs, made, flat>>

\* lines 205-207: the SELECT TOP 2 query that finds the columns
read_sql_columns ==
    /\ pc = "read_sql:columns"
    /\ \E ok \in BOOLEAN :
         /\ events' = Append(events, Ev("read_sql_query", Outcome(ok, "DatabaseError")))
         /\ exc' = Outcome(ok, "DatabaseError")
         /\ pc' = IF ok THEN "read_sql:bcp" ELSE "raised"
    /\ UNCHANGED <<args, creds, logged, shown, fs, made, flat>>

\* lines 209-219: the scratch flat file, then bcp(direction=OUT) inside the
\* try statement
read_sql_bcp ==
    /\ pc = "read_sql:bcp"
    /\ fs' = get_temp_file(fs, "flat")
    /\ made' = made \cup {"flat"}
    /\ \E ok \in BOOLEAN :
         /\ events' = Append(events, Ev("bcp out", Outcome(ok, "BulkCopyError")))
         /\ exc' = Outcome(ok, "BulkCopyError")
         /\ pc' = IF ok THEN "read_sql:parse" ELSE "read_sql:finally"
    /\ UNCHANGED <<args, creds, logged, shown, flat>>

\* line 220: pd.read_csv of the scratch file, inside the try statement
read_sql_parse ==
    /\ pc = "read_sql:parse"
    /\ \E ok \in BOOLEAN :
         /\ events' = Append(events, Ev("read_csv", Outcome(ok, "ParserError")))
         /\ exc' = Outcome(ok, "ParserError")
    /\ pc' = "read_sql:finally"
    /\ UNCHANGED <<args, creds, logged, shown, fs, made, flat>>

\* lines 221-222 with the deletion only on the way out of a success
read_sql_finally_on_success ==
    /\ pc = "read_sql:finally"
    /\ IF exc # "None"
       THEN /\ pc' = "raised"
            /\ UNCHANGED <<fs, events, exc>>
       ELSE \E ok \in BOOLEAN :
            /\ events' = Append(events, Ev("os.remove flat", Outcome(ok, "OSError")))
            /\ fs' = IF ok THEN fs \ {"flat"} ELSE fs
            /\ exc' = Outcome(ok, "OSError")
            /\ pc' = IF ok THEN "returned" ELSE "raised"
    /\ UNCHANGED <<args, creds, logged, shown, made, flat>>

\* lines 221-222: the finally block. An os.remove that raises replaces the
\* pending exception.
read_sql_finally ==
    /\ pc = "read_sql:finally"
    /\ \E ok \in BOOLEAN :
         /\ events' = Append(events, Ev("os.remove flat", Outcome(ok, "OSError")))
         /\ fs' = IF ok THEN fs \ {"flat"} ELSE fs
         /\ exc' = IF ok THEN exc ELSE "OSError"
         /\ pc' = IF exc' = "None" THEN "returned" ELSE "raised"
    /\ UNCHANGED <<args, creds, logged, shown, made, flat>>

NextReadSql ==
    \/ read_sql_validate
    \/ read_sql_check_name
    \/ read_sql_connect
    \/ read_sql_columns
    \/ read_sql_bcp
    \/ read_sql_parse
    \/ read_sql_finally

SpecReadSql == InitReadSql /\ [][NextReadSql]_vars

\* ----------------------------------------------------- read_sql: properties
\* C4: a read_sql call whose target name contains ';' raises a validation
\* error (the ValueError of the name test, or the AssertionError of the
\* argument asserts before it) before any connection is opened: no
\* credential is read, no preview query is run, no scratch file is created
\* and bcp is not invoked.
C4_Separator ==
    Contains(args.table_name, <<";">>) =>
        /\ pc \in {"read_sql:validate", "read_sql:name", "raised"}
        /\ pc = "raised" => exc \in {"AssertionError", "ValueError"}
        /\ events = <<>> /\ made = {} /\ fs = {}

\* A call with valid sql_type and driver version and a name of full length
\* that ends in ';' has raised ValueError.
C4_Witness ==
    /\ pc = "raised"
    /\ exc = "ValueError"
    /\ Len(args.table_name) = MaxLen
    /\ args.table_name[1] = "t"
    /\ args.table_name[MaxLen] = ";"

=============================================================================
